---- MODULE Spec2Model ----
(***************************************************************************)
(* Model of weather.py: two MCP tools, get_alerts and get_forecast, each   *)
(* fetching a JSON body through its own httpx.AsyncClient and rendering    *)
(* it as text.                                                             *)
(*                                                                         *)
(* A Python string built by an f-string is a TLA+ string built with \o.    *)
(* A string built by sep.join(parts) is kept as the sequence of its        *)
(* chunks <<part1, sep, part2, ...>>: the Python string is their           *)
(* concatenation.  A JSON object is a record with a field "keys", the set  *)
(* of keys present; the other fields hold the values (a filler where the   *)
(* key is absent, never read by the code's translation).                   *)
(***************************************************************************)
EXTENDS Integers, Sequences, FiniteSets, TLC

(***************************************************************************)
(* Bounds of the model.                                                    *)
(***************************************************************************)
MaxFeatures == 2
MaxPeriods == 6
MaxDeg == 360

Procs == {1, 2}

(***************************************************************************)
(* Program constants.                                                      *)
(***************************************************************************)
NWS_API_BASE == "https://api.weather.gov"
OPENWEATHER_API_BASE == "https://api.openweathermap.org/data/2.5"
USER_AGENT == "weather-app/1.0"
MaxShown == 5
SeparatorWidth == 50

VARIABLES
    env,      \* the process environment: OPENWEATHER_API_KEY
    pc,       \* pc[p]: where invocation p stands
    tool,     \* tool[p]: the tool operation invocation p runs
    request,  \* request[p]: the url and headers of the GET it issued
    client,   \* client[p]: its httpx.AsyncClient: "none", "open", "closed"
    gets,     \* gets[p]: the number of GETs it sent
    outcome,  \* outcome[p]: what the network answered
    data,     \* data[p]: what the fetch helper returned (None or a body)
    result    \* result[p]: what the tool operation returned or raised

vars == <<env, pc, tool, request, client, gets, outcome, data, result>>

(***************************************************************************)
(* Python values.                                                          *)
(***************************************************************************)
JStr(s) == [t |-> "str", s |-> s]
JInt(n) == [t |-> "int", s |-> ToString(n)]

\* dict.get(key, default)
Get(d, k, default) == IF k \in d.keys THEN d[k] ELSE default

Return(chunks) == [kind |-> "return", chunks |-> chunks]
Raise(exc) == [kind |-> "raise", chunks |-> <<exc>>]
NoResult == [kind |-> "none", chunks |-> <<>>]


\* not data / not forecast_data: None and the empty dict are falsy
Falsy(d) == ~d.ok \/ d.body.keys = {}

RECURSIVE Join(_, _)
\* sep.join(parts), as the sequence of its chunks
Join(parts, sep) ==
    IF Len(parts) <= 1 THEN parts
    ELSE <<Head(parts), sep>> \o Join(Tail(parts), sep)

RECURSIVE Repeat(_, _)
\* s * n
Repeat(s, n) == IF n <= 0 THEN "" ELSE s \o Repeat(s, n - 1)

(***************************************************************************)
(* get_alerts and format_alert.                                            *)
(***************************************************************************)
\* a faulty variant of format_alert: one placeholder for every field
format_alert_one_placeholder(feature) ==
    IF "properties" \notin feature.keys THEN Raise("KeyError")
    ELSE LET props == feature.properties IN
         Return(<<"\nEvent: " \o Get(props, "event", "Unknown")
               \o "\nArea: " \o Get(props, "areaDesc", "Unknown")
               \o "\nSeverity: " \o Get(props, "severity", "Unknown")
               \o "\nDescription: " \o Get(props, "description", "Unknown")
               \o "\nInstructions: " \o Get(props, "instruction", "Unknown")
               \o "\n">>)

format_alert(feature) ==
    IF "properties" \notin feature.keys THEN Raise("KeyError")
    ELSE LET props == feature.properties IN
         Return(<<"\nEvent: " \o Get(props, "event", "Unknown")
               \o "\nArea: " \o Get(props, "areaDesc", "Unknown")
               \o "\nSeverity: " \o Get(props, "severity", "Unknown")
               \o "\nDescription: "
               \o Get(props, "description", "No description available")
               \o "\nInstructions: "
               \o Get(props, "instruction", "No specific instructions provided")
               \o "\n">>)

RECURSIVE FormatAlerts(_)
\* [format_alert(feature) for feature in features]: the list, or the first
\* exception a format_alert raises
FormatAlerts(features) ==
    IF features = <<>> THEN Return(<<>>)
    ELSE LET first == format_alert(Head(features)) IN
         IF first.kind = "raise" THEN first
         ELSE LET rest == FormatAlerts(Tail(features)) IN
              IF rest.kind = "raise" THEN rest
              ELSE Return(first.chunks \o rest.chunks)

\* a faulty variant of get_alerts_result: data.get("features", []) in place
\* of the test for the key
get_alerts_result_default_list(d) ==
    IF Falsy(d)
    THEN Return(<<"Unable to fetch alerts or no alerts found.">>)
    ELSE IF Get(d.body, "features", <<>>) = <<>>
    THEN Return(<<"No active alerts for this state.">>)
    ELSE LET alerts == FormatAlerts(d.body.features) IN
         IF alerts.kind = "raise" THEN alerts
         ELSE Return(Join(alerts.chunks, "\n---\n"))

\* get_alerts from the return of make_nws_request on
get_alerts_result(d) ==
    IF Falsy(d) \/ "features" \notin d.body.keys
    THEN Return(<<"Unable to fetch alerts or no alerts found.">>)
    ELSE IF d.body.features = <<>>
    THEN Return(<<"No active alerts for this state.">>)
    ELSE LET alerts == FormatAlerts(d.body.features) IN
         IF alerts.kind = "raise" THEN alerts
         ELSE Return(Join(alerts.chunks, "\n---\n"))

(***************************************************************************)
(* get_forecast.                                                           *)
(***************************************************************************)
\* os.getenv("OPENWEATHER_API_KEY"): None when unset
get_openweather_api_key(e) == e

\* a faulty variant of NoApiKey: api_key is None
NoApiKey_is_none(api_key) == ~api_key.set

\* not api_key: None and "" are falsy
NoApiKey(api_key) == ~api_key.set \/ api_key.val = ""

\* a faulty variant of CodIsError: an error only when a message comes with it
CodIsError_with_message(body) ==
    "cod" \in body.keys /\ body.cod # JStr("200") /\ "message" \in body.keys

\* "cod" in forecast_data and forecast_data["cod"] != "200"
CodIsError(body) == "cod" \in body.keys /\ body.cod # JStr("200")

\* forecast_data.get("message", "Unknown error"), formatted
error_msg(body) == Get(body, "message", JStr("Unknown error")).s

\* int(x) for the rational x = n / d, d > 0: truncation towards zero
IntOf(n, d) == IF n >= 0 THEN n \div d ELSE -((-n) \div d)

directions ==
    <<"N", "NNE", "NE", "ENE", "E", "ESE", "SE", "SSE",
      "S", "SSW", "SW", "WSW", "W", "WNW", "NW", "NNW">>

\* round(x) for the rational x = n / d, n >= 0, d > 0: to the nearest integer,
\* a half to the even one
RoundOf(n, d) ==
    LET q == n \div d
        r == n % d
    IN IF 2 * r < d THEN q
       ELSE IF 2 * r > d THEN q + 1
       ELSE IF q % 2 = 0 THEN q ELSE q + 1

\* a faulty variant of wind_direction: round() in place of int()
wind_direction_round(wind_deg) ==
    IF wind_deg # 0
    THEN directions[(RoundOf(4 * wind_deg + 45, 90) % 16) + 1]
    ELSE "N/A"

\* a faulty variant of wind_direction: 0 degrees is north
wind_direction_zero_north(wind_deg) ==
    directions[(IntOf(4 * wind_deg + 45, 90) % 16) + 1]

\* directions[int((wind_deg + 11.25) / 22.5) % 16] if wind_deg else "N/A";
\* (wind_deg + 11.25) / 22.5 = (4 * wind_deg + 45) / 90
wind_direction(wind_deg) ==
    IF wind_deg # 0
    THEN directions[(IntOf(4 * wind_deg + 45, 90) % 16) + 1]
    ELSE "N/A"

TwoDigits(n) == IF n < 10 THEN "0" \o ToString(n) ELSE ToString(n)

WeekDays ==
    <<"Thursday", "Friday", "Saturday", "Sunday", "Monday", "Tuesday",
      "Wednesday">>

\* datetime.fromtimestamp(dt).strftime('%A, %B %d at %I:%M %p'), for a local
\* zone of UTC and a dt within January 1970
Strftime(dt) ==
    LET day == dt \div 86400
        hour == (dt % 86400) \div 3600
        minute == (dt % 3600) \div 60
        hour12 == IF hour % 12 = 0 THEN 12 ELSE hour % 12
    IN WeekDays[(day % 7) + 1] \o ", January " \o TwoDigits(day + 1) \o " at "
       \o TwoDigits(hour12) \o ":" \o TwoDigits(minute) \o " "
       \o (IF hour < 12 THEN "AM" ELSE "PM")

\* str.title(), on the descriptions of the model
Title(s) ==
    CASE s = "clear sky" -> "Clear Sky"
      [] s = "light rain" -> "Light Rain"
      [] s = "overcast clouds" -> "Overcast Clouds"
      [] OTHER -> s

EmptyWind == [keys |-> {}, speed |-> 0, deg |-> 0]

\* the f-string of a period's forecast block
PeriodBlock(when, temp, feels_like, desc, humidity, wind_speed, direction) ==
    "\n" \o when \o ":\nTemperature: " \o temp \o "°C (feels like "
    \o feels_like \o "°C)\nWeather: " \o desc \o "\nHumidity: "
    \o humidity \o "%\nWind: " \o wind_speed \o " m/s " \o direction \o "\n"

\* one pass of the loop body: the forecast block of a period, or the exception
\* the subscripts raise
format_period(period) ==
    IF "dt" \notin period.keys THEN Raise("KeyError")
    ELSE IF "main" \notin period.keys THEN Raise("KeyError")
    ELSE IF {"temp", "feels_like", "humidity"} \ period.main.keys # {}
    THEN Raise("KeyError")
    ELSE IF "weather" \notin period.keys THEN Raise("KeyError")
    ELSE IF period.weather = <<>> THEN Raise("IndexError")
    ELSE IF "description" \notin period.weather[1].keys THEN Raise("KeyError")
    ELSE LET wind == Get(period, "wind", EmptyWind)
             wind_speed == Get(wind, "speed", 0)
             wind_deg == Get(wind, "deg", 0)
         IN Return(<<PeriodBlock(Strftime(period.dt),
                                 ToString(period.main.temp),
                                 ToString(period.main.feels_like),
                                 Title(period.weather[1].description),
                                 ToString(period.main.humidity),
                                 ToString(wind_speed),
                                 wind_direction(wind_deg))>>)

\* a faulty variant of ShownPeriods: periods, unsliced
ShownPeriods_all(periods) == periods

\* periods[:5]
ShownPeriods(periods) ==
    SubSeq(periods, 1, IF Len(periods) < MaxShown THEN Len(periods) ELSE MaxShown)

RECURSIVE FormatPeriods(_)
\* the for loop over the shown periods: the blocks appended, or the first
\* exception raised
FormatPeriods(periods) ==
    IF periods = <<>> THEN Return(<<>>)
    ELSE LET first == format_period(Head(periods)) IN
         IF first.kind = "raise" THEN first
         ELSE LET rest == FormatPeriods(Tail(periods)) IN
              IF rest.kind = "raise" THEN rest
              ELSE Return(first.chunks \o rest.chunks)

EmptyCity == [keys |-> {}, name |-> "", country |-> ""]

\* location_info
LocationInfo(body) ==
    LET city == Get(body, "city", EmptyCity)
        city_name == Get(city, "name", "Unknown")
        country == Get(city, "country", "")
    IN "Forecast for " \o city_name
       \o (IF country # "" THEN ", " \o country ELSE "")

\* get_forecast from the return of make_openweather_request on
get_forecast_result(d) ==
    IF Falsy(d)
    THEN Return(<<"Unable to fetch forecast data for this location.">>)
    ELSE IF CodIsError(d.body)
    THEN Return(<<"Unable to fetch forecast: "
                  \o error_msg(d.body)>>)
    ELSE LET header == <<LocationInfo(d.body), Repeat("=", SeparatorWidth)>>
             periods == Get(d.body, "list", <<>>)
         IN IF periods = <<>>
            THEN Return(<<"No forecast data available.">>)
            ELSE LET blocks == FormatPeriods(ShownPeriods(periods)) IN
                 IF blocks.kind = "raise" THEN blocks
                 ELSE Return(Join(header \o blocks.chunks, "\n"))

(***************************************************************************)
(* The inputs: the environment, the arguments and the JSON bodies the two  *)
(* upstream services answer with.                                          *)
(***************************************************************************)
ApiKeys == {[set |-> FALSE, val |-> ""], [set |-> TRUE, val |-> ""],
            [set |-> TRUE, val |-> "k3y"]}

StateCodes == {"CA", "NY"}

\* latitude and longitude, in tenths of a degree
Coordinates == {<<0, 0>>, <<375, -1224>>}

\* str(x) of the float x = tenths / 10
FloatStr(tenths) ==
    LET a == IF tenths < 0 THEN -tenths ELSE tenths IN
    (IF tenths < 0 THEN "-" ELSE "") \o ToString(a \div 10) \o "."
    \o ToString(a % 10)

AlertFields == {"event", "areaDesc", "severity", "description", "instruction"}

Props(keys, tag) ==
    [keys |-> keys, event |-> "Flood Warning " \o tag,
     areaDesc |-> "County " \o tag, severity |-> "Severe " \o tag,
     description |-> "Flooding " \o tag, instruction |-> "Move " \o tag]

PropKeySets ==
    {{}, AlertFields} \cup {AlertFields \ {f} : f \in AlertFields}
    \cup {{f} : f \in AlertFields}

\* the features the i-th entry of a features list is drawn from; the last one
\* has no 'properties'
FeaturesAt(i) ==
    {[keys |-> {"properties"}, properties |-> Props(K, ToString(i))] :
        K \in PropKeySets}
    \cup {[keys |-> {}, properties |-> Props({}, ToString(i))]}

RECURSIVE FeatureLists(_)
FeatureLists(n) ==
    IF n = 0 THEN {<<>>}
    ELSE {Append(l, f) : l \in FeatureLists(n - 1), f \in FeaturesAt(n)}

EmptyBody ==
    [keys |-> {}, features |-> <<>>, cod |-> JStr(""), message |-> JStr(""),
     city |-> EmptyCity, list |-> <<>>]

AlertBodies ==
    {[EmptyBody EXCEPT !.keys = {"features"}, !.features = l] :
        l \in UNION {FeatureLists(n) : n \in 0..MaxFeatures}}

GoodPeriod(i, deg) ==
    [keys |-> {"dt", "main", "weather", "wind"}, dt |-> i * 10800,
     main |-> [keys |-> {"temp", "feels_like", "humidity"}, temp |-> 10 + i,
               feels_like |-> 8 - i, humidity |-> 50 + i],
     weather |-> <<[keys |-> {"description"},
                    description |-> IF i % 2 = 0 THEN "light rain"
                                    ELSE "clear sky"]>>,
     wind |-> [keys |-> {"speed", "deg"}, speed |-> i, deg |-> deg]]

MalformedKinds ==
    {"no_dt", "no_main", "no_temp", "no_feels_like", "no_humidity",
     "no_weather", "empty_weather", "no_description"}

Malformed(period, kind) ==
    CASE kind = "no_dt" -> [period EXCEPT !.keys = @ \ {"dt"}]
      [] kind = "no_main" -> [period EXCEPT !.keys = @ \ {"main"}]
      [] kind = "no_temp" -> [period EXCEPT !.main.keys = @ \ {"temp"}]
      [] kind = "no_feels_like" ->
            [period EXCEPT !.main.keys = @ \ {"feels_like"}]
      [] kind = "no_humidity" -> [period EXCEPT !.main.keys = @ \ {"humidity"}]
      [] kind = "no_weather" -> [period EXCEPT !.keys = @ \ {"weather"}]
      [] kind = "empty_weather" -> [period EXCEPT !.weather = <<>>]
      [] kind = "no_description" -> [period EXCEPT !.weather[1].keys = {}]

\* n periods, the i-th with dt = i * 3 hours; with m > 0 the m-th is malformed
PeriodList(n, m, kind) ==
    [i \in 1..n |-> IF i = m THEN Malformed(GoodPeriod(i, 45 * i), kind)
                    ELSE GoodPeriod(i, 45 * i)]

PeriodLists ==
    {PeriodList(n, 0, "no_dt") : n \in 1..MaxPeriods}
    \cup {PeriodList(n, m, kind) :
            n \in 1..MaxPeriods, m \in 1..MaxPeriods, kind \in MalformedKinds}

Cities ==
    {[keys |-> {"name", "country"}, name |-> "Springfield", country |-> "US"],
     [keys |-> {"name"}, name |-> "Springfield", country |-> ""],
     [keys |-> {"country"}, name |-> "", country |-> "US"],
     [keys |-> {"name", "country"}, name |-> "Springfield", country |-> ""]}

ForecastBody(keys, cod, message, city, periods) ==
    [keys |-> keys, features |-> <<>>,
     cod |-> IF "cod" \in keys THEN cod ELSE JStr(""),
     message |-> IF "message" \in keys THEN message ELSE JStr(""),
     city |-> IF "city" \in keys THEN city ELSE EmptyCity,
     list |-> IF "list" \in keys THEN periods ELSE <<>>]

\* bodies that vary the status code, the message, the city and the presence of
\* the list
StatusBodies ==
    {ForecastBody(keys, cod, message, city, periods) :
        keys \in SUBSET {"cod", "message", "city", "list"},
        cod \in {JStr("200"), JStr("404"), JStr("401"), JInt(200)},
        message \in {JStr("city not found"), JInt(0)},
        city \in {CHOOSE c \in Cities : c.keys = {"name", "country"}
                                        /\ c.country # ""},
        periods \in {<<>>, PeriodList(1, 0, "no_dt"),
                     PeriodList(MaxShown + 1, 0, "no_dt")}}

\* bodies that vary the period list
ListBodies ==
    {ForecastBody({"cod", "city", "list"}, JStr("200"), JInt(0), city, periods) :
        city \in Cities, periods \in PeriodLists}

WindVariants ==
    {[keys |-> K, speed |-> 3, deg |-> d] :
        K \in {{"speed", "deg"}, {"deg"}}, d \in 0..MaxDeg}
    \cup {[keys |-> K, speed |-> 3, deg |-> 90] : K \in {{}, {"speed"}}}

\* bodies of one period that vary its wind
WindBodies ==
    {ForecastBody({"list"}, JStr(""), JStr(""), EmptyCity,
                  <<[GoodPeriod(1, 0) EXCEPT !.wind = w]>>) :
        w \in WindVariants}
    \cup {ForecastBody({"list"}, JStr(""), JStr(""), EmptyCity,
                       <<[GoodPeriod(1, 0) EXCEPT !.keys = @ \ {"wind"}]>>)}

ForecastBodies == StatusBodies \cup ListBodies \cup WindBodies

\* the bodies a GET of the tool's url may be answered with
ResponseBodies(t) ==
    IF t = "get_alerts"
    THEN AlertBodies \cup {EmptyBody, ForecastBody({"cod", "message"},
                                                    JStr("404"),
                                                    JStr("city not found"),
                                                    EmptyCity, <<>>)}
    ELSE ForecastBodies \cup {EmptyBody}
         \cup {b \in AlertBodies : Len(b.features) <= 1}

\* a few bodies of each shape, for the runs of concurrent invocations
SmallResponseBodies(t) ==
    IF t = "get_alerts"
    THEN {EmptyBody} \cup {b \in AlertBodies : Len(b.features) = 1
                              /\ \A i \in 1..Len(b.features) :
                                    b.features[i].properties.keys = {}}
    ELSE {EmptyBody,
          ForecastBody({"cod", "list"}, JStr("200"), JInt(0), EmptyCity,
                       PeriodList(1, 0, "no_dt")),
          ForecastBody({"cod", "list"}, JStr("200"), JInt(0), EmptyCity,
                       PeriodList(1, 1, "no_main"))}

FailureKinds == {"network", "timeout", "status", "decode"}

None == [ok |-> FALSE, body |-> EmptyBody]
Some(body) == [ok |-> TRUE, body |-> body]

NoRequest == [url |-> "", headers |-> {}]

(***************************************************************************)
(* The state machine: invocations of the two tools.                        *)
(***************************************************************************)
Init ==
    /\ env \in ApiKeys
    /\ pc = [p \in Procs |-> "idle"]
    /\ tool = [p \in Procs |-> "none"]
    /\ request = [p \in Procs |-> NoRequest]
    /\ client = [p \in Procs |-> "none"]
    /\ gets = [p \in Procs |-> 0]
    /\ outcome = [p \in Procs |-> "none"]
    /\ data = [p \in Procs |-> None]
    /\ result = [p \in Procs |-> NoResult]

\* get_alerts up to its call of make_nws_request
get_alerts(p) ==
    /\ pc[p] = "idle"
    /\ \E state \in StateCodes :
          request' = [request EXCEPT ![p] =
              [url |-> NWS_API_BASE \o "/alerts/active/area/" \o state,
               headers |-> {<<"User-Agent", USER_AGENT>>,
                            <<"Accept", "application/geo+json">>}]]
    /\ tool' = [tool EXCEPT ![p] = "get_alerts"]
    /\ pc' = [pc EXCEPT ![p] = "enter"]
    /\ UNCHANGED <<env, client, gets, outcome, data, result>>

\* get_forecast up to its call of make_openweather_request, or to its return
\* when there is no API key
get_forecast(p) ==
    /\ pc[p] = "idle"
    /\ tool' = [tool EXCEPT ![p] = "get_forecast"]
    /\ LET api_key == get_openweather_api_key(env) IN
       IF NoApiKey(api_key)
       THEN /\ result' = [result EXCEPT ![p] = Return(
                   <<"Error: OPENWEATHER_API_KEY not found in .env file. Please add it to your .env file.">>)]
            /\ pc' = [pc EXCEPT ![p] = "done"]
            /\ UNCHANGED request
       ELSE /\ \E c \in Coordinates :
                  request' = [request EXCEPT ![p] =
                      [url |-> OPENWEATHER_API_BASE \o "/forecast?lat="
                               \o FloatStr(c[1]) \o "&lon=" \o FloatStr(c[2])
                               \o "&appid=" \o api_key.val \o "&units=metric",
                       headers |-> {}]]
            /\ pc' = [pc EXCEPT ![p] = "enter"]
            /\ UNCHANGED result
    /\ UNCHANGED <<env, client, gets, outcome, data>>

\* async with httpx.AsyncClient() as client: the client is acquired
client_enter(p) ==
    /\ pc[p] = "enter"
    /\ client' = [client EXCEPT ![p] = "open"]
    /\ pc' = [pc EXCEPT ![p] = "get"]
    /\ UNCHANGED <<env, tool, request, gets, outcome, data, result>>

\* await client.get(url, ...): the GET is sent and the invocation suspends
client_get(p) ==
    /\ pc[p] = "get"
    /\ client[p] = "open"
    /\ gets' = [gets EXCEPT ![p] = @ + 1]
    /\ pc' = [pc EXCEPT ![p] = "await"]
    /\ UNCHANGED <<env, tool, request, client, outcome, data, result>>

\* the GET, raise_for_status() or response.json() raises: except Exception
\* returns None
fetch_fails(p) ==
    /\ pc[p] = "await"
    /\ \E kind \in FailureKinds : outcome' = [outcome EXCEPT ![p] = kind]
    /\ data' = [data EXCEPT ![p] = None]
    /\ pc' = [pc EXCEPT ![p] = "exit"]
    /\ UNCHANGED <<env, tool, request, client, gets, result>>

\* return response.json()
fetch_succeeds(p, small) ==
    /\ pc[p] = "await"
    /\ \E body \in IF small THEN SmallResponseBodies(tool[p])
                   ELSE ResponseBodies(tool[p]) :
          data' = [data EXCEPT ![p] = Some(body)]
    /\ outcome' = [outcome EXCEPT ![p] = "json"]
    /\ pc' = [pc EXCEPT ![p] = "exit"]
    /\ UNCHANGED <<env, tool, request, client, gets, result>>

\* a faulty variant of client_exit: the client is closed on the success path
\* alone
client_exit_on_success(p) ==
    /\ pc[p] = "exit"
    /\ client' = [client EXCEPT ![p] = IF data[p].ok THEN "closed" ELSE @]
    /\ pc' = [pc EXCEPT ![p] = "render"]
    /\ UNCHANGED <<env, tool, request, gets, outcome, data, result>>

\* the async with block is left, by return: the client is released and the
\* helper returns
client_exit(p) ==
    /\ pc[p] = "exit"
    /\ client' = [client EXCEPT ![p] = "closed"]
    /\ pc' = [pc EXCEPT ![p] = "render"]
    /\ UNCHANGED <<env, tool, request, gets, outcome, data, result>>

\* the rest of the tool operation, from the helper's return to its own return
\* or raise
tool_returns(p) ==
    /\ pc[p] = "render"
    /\ result' = [result EXCEPT ![p] =
          IF tool[p] = "get_alerts" THEN get_alerts_result(data[p])
          ELSE get_forecast_result(data[p])]
    /\ pc' = [pc EXCEPT ![p] = "done"]
    /\ UNCHANGED <<env, tool, request, client, gets, outcome, data>>

NextOf(P, small) ==
    \E p \in P :
        \/ get_alerts(p)
        \/ get_forecast(p)
        \/ client_enter(p)
        \/ client_get(p)
        \/ fetch_fails(p)
        \/ fetch_succeeds(p, small)
        \/ client_exit(p)
        \/ tool_returns(p)

\* one invocation at a time, over all the bodies
Next == NextOf({1}, FALSE)

Spec == Init /\ [][Next]_vars

\* concurrent invocations, over a few bodies
NextConc == NextOf(Procs, TRUE)

SpecConc == Init /\ [][NextConc]_vars

TypeOK ==
    /\ \A p \in Procs : pc[p] \in {"idle", "enter", "get", "await", "exit",
                                   "render", "done"}
    /\ \A p \in Procs : result[p].kind \in {"none", "return", "raise"}

(***************************************************************************)
(* The claims.                                                             *)
(***************************************************************************)
Done(p, t) == pc[p] = "done" /\ tool[p] = t

\* the body a finished invocation was answered with
Answered(p, t) == Done(p, t) /\ outcome[p] = "json"

Unable == "Unable to fetch alerts or no alerts found."
NoKeyMessage ==
    "Error: OPENWEATHER_API_KEY not found in .env file. Please add it to your .env file."

\* C1: every finished invocation of get_alerts or get_forecast has returned a
\* string; none has raised an exception, whatever the fetch outcome was.
C1_NoExceptionEscapes ==
    \A p \in Procs : pc[p] = "done" => result[p].kind = "return"

\* C2: when the alerts fetch failed (network error, timeout, non-2xx status,
\* undecodable body) or the decoded body has no 'features' key, get_alerts
\* returned exactly "Unable to fetch alerts or no alerts found.".
C2_AlertsUnable ==
    \A p \in Procs :
        (/\ Done(p, "get_alerts")
         /\ \/ outcome[p] \in FailureKinds
            \/ outcome[p] = "json" /\ "features" \notin data[p].body.keys)
        => result[p] = [kind |-> "return", chunks |-> <<Unable>>]

\* C2's case: a non-empty body without 'features' was answered
C2_Witness ==
    \E p \in Procs :
        /\ Answered(p, "get_alerts")
        /\ data[p].body.keys # {}
        /\ "features" \notin data[p].body.keys

\* C3: with OPENWEATHER_API_KEY unset or empty, an invocation of get_forecast
\* has returned the fixed instructional string, and it acquired no client and
\* sent no GET.
C3_NoKeyNoNetwork ==
    \A p \in Procs :
        (tool[p] = "get_forecast" /\ (~env.set \/ env.val = ""))
        => /\ pc[p] = "done"
           /\ result[p] = [kind |-> "return", chunks |-> <<NoKeyMessage>>]
           /\ gets[p] = 0
           /\ client[p] = "none"
           /\ request[p] = NoRequest

\* C3's case: get_forecast was invoked with the key set to the empty string
C3_Witness ==
    \E p \in Procs : Done(p, "get_forecast") /\ env.set /\ env.val = ""

\* C4: when the forecast body has a 'cod' that is a string other than "200",
\* get_forecast returned "Unable to fetch forecast: " followed by the body's
\* 'message', or by "Unknown error" when there is none, whatever 'list' holds.
C4_CodError ==
    \A p \in Procs :
        (/\ Answered(p, "get_forecast")
         /\ "cod" \in data[p].body.keys
         /\ data[p].body.cod.t = "str"
         /\ data[p].body.cod.s # "200")
        => result[p] =
              [kind |-> "return",
               chunks |-> <<"Unable to fetch forecast: "
                            \o (IF "message" \in data[p].body.keys
                                THEN data[p].body.message.s
                                ELSE "Unknown error")>>]

\* C4's case: cod "404" without a message, and a non-empty list
C4_Witness ==
    \E p \in Procs :
        /\ Answered(p, "get_forecast")
        /\ {"cod", "list"} \subseteq data[p].body.keys
        /\ "message" \notin data[p].body.keys
        /\ data[p].body.cod = JStr("404")
        /\ data[p].body.list # <<>>
        /\ result[p].chunks = <<"Unable to fetch forecast: Unknown error">>

\* C5: when the forecast fetch succeeded (a body was decoded, the empty object
\* included), the body has no 'list' or an empty one, and it has no 'cod' other
\* than "200", get_forecast returned exactly "No forecast data available.".
C5_EmptyIsNoData ==
    \A p \in Procs :
        (/\ Answered(p, "get_forecast")
         /\ \/ "list" \notin data[p].body.keys
            \/ data[p].body.list = <<>>
         /\ \/ "cod" \notin data[p].body.keys
            \/ data[p].body.cod = JStr("200"))
        => result[p] =
              [kind |-> "return", chunks |-> <<"No forecast data available.">>]

\* the block of an alert whose fields are as given, a placeholder standing for
\* each field that is missing
AlertBlockOf(props) ==
    LET field(k, placeholder) ==
            IF k \in props.keys THEN props[k] ELSE placeholder
    IN "\nEvent: " \o field("event", "Unknown")
       \o "\nArea: " \o field("areaDesc", "Unknown")
       \o "\nSeverity: " \o field("severity", "Unknown")
       \o "\nDescription: " \o field("description", "No description available")
       \o "\nInstructions: "
       \o field("instruction", "No specific instructions provided") \o "\n"

HasProperties(features) ==
    \A i \in 1..Len(features) : "properties" \in features[i].keys

\* C6: for a features list of N >= 1 alert features (each with its 'properties'
\* object), get_alerts returned N blocks, the i-th the block of the i-th
\* feature with the fixed placeholder for each missing field, with "\n---\n"
\* between consecutive blocks and nothing else.
C6_AlertBlocks ==
    \A p \in Procs :
        (/\ Answered(p, "get_alerts")
         /\ "features" \in data[p].body.keys
         /\ Len(data[p].body.features) >= 1
         /\ HasProperties(data[p].body.features))
        => LET features == data[p].body.features
               N == Len(features)
           IN /\ result[p].kind = "return"
              /\ Len(result[p].chunks) = 2 * N - 1
              /\ \A i \in 1..N :
                    result[p].chunks[2 * i - 1]
                        = AlertBlockOf(features[i].properties)
              /\ \A i \in 1..(N - 1) : result[p].chunks[2 * i] = "\n---\n"

\* C6's case: MaxFeatures features, the first with no field, the last with all
C6_Witness ==
    \E p \in Procs :
        /\ Answered(p, "get_alerts")
        /\ Len(data[p].body.features) = MaxFeatures
        /\ HasProperties(data[p].body.features)
        /\ data[p].body.features[1].properties.keys = {}
        /\ data[p].body.features[MaxFeatures].properties.keys = AlertFields
        /\ result[p].kind = "return"

WellFormedPeriod(period) ==
    /\ {"dt", "main", "weather"} \subseteq period.keys
    /\ period.main.keys = {"temp", "feels_like", "humidity"}
    /\ period.weather # <<>>
    /\ "description" \in period.weather[1].keys

Min(a, b) == IF a < b THEN a ELSE b

\* a body that get_forecast goes on to render: decoded, non-empty, with no
\* 'cod' other than "200", with a non-empty 'list' whose first five periods
\* have the fields a period has
Renderable(body) ==
    /\ "list" \in body.keys
    /\ Len(body.list) >= 1
    /\ "cod" \in body.keys => body.cod = JStr("200")
    /\ \A i \in 1..Min(Len(body.list), 5) : WellFormedPeriod(body.list[i])

\* C7: for a successful forecast body whose list has n >= 1 periods,
\* get_forecast returned the header line, the line of 50 "=", and min(n, 5)
\* blocks, the i-th one the block of the i-th period, joined by "\n"; the
\* periods after the fifth do not change the output.
C7_FirstFivePeriods ==
    \A p \in Procs :
        (Answered(p, "get_forecast") /\ Renderable(data[p].body))
        => LET body == data[p].body
               k == Min(Len(body.list), 5)
               chunks == result[p].chunks
           IN /\ result[p].kind = "return"
              /\ Len(chunks) = 2 * (k + 2) - 1
              /\ chunks[1] =
                    "Forecast for "
                    \o (IF "city" \in body.keys /\ "name" \in body.city.keys
                        THEN body.city.name ELSE "Unknown")
                    \o (IF /\ "city" \in body.keys
                           /\ "country" \in body.city.keys
                           /\ body.city.country # ""
                        THEN ", " \o body.city.country ELSE "")
              /\ chunks[3]
                    = "=================================================="
              /\ \A i \in 1..k :
                    chunks[2 * (i + 2) - 1] = format_period(body.list[i]).chunks[1]
              /\ \A i \in 1..(k + 1) : chunks[2 * i] = "\n"
              /\ result[p] = get_forecast_result(
                    Some([body EXCEPT !.list = SubSeq(body.list, 1, k)]))

\* C7's case: six periods, the sixth without 'main'
C7_Witness ==
    \E p \in Procs :
        /\ Answered(p, "get_forecast")
        /\ Renderable(data[p].body)
        /\ Len(data[p].body.list) = 6
        /\ "main" \notin data[p].body.list[6].keys
        /\ result[p].kind = "return"

\* the body of one period whose wind has the degree value deg
WindCase(p, deg) ==
    /\ Answered(p, "get_forecast")
    /\ Renderable(data[p].body)
    /\ Len(data[p].body.list) = 1
    /\ "wind" \in data[p].body.list[1].keys
    /\ "deg" \in data[p].body.list[1].wind.keys
    /\ data[p].body.list[1].wind.deg = deg

\* the one block of the output has the wind direction label
RendersDirection(p, label) ==
    /\ result[p].kind = "return"
    /\ Len(result[p].chunks) = 5
    /\ LET period == data[p].body.list[1]
           wind == IF "wind" \in period.keys THEN period.wind ELSE EmptyWind
       IN result[p].chunks[5] =
             PeriodBlock(Strftime(period.dt), ToString(period.main.temp),
                         ToString(period.main.feels_like),
                         Title(period.weather[1].description),
                         ToString(period.main.humidity),
                         IF "speed" \in wind.keys THEN ToString(wind.speed)
                         ELSE "0",
                         label)

\* C8, as the spec states it: for an integer wind degree d in 1..360, the
\* rendered direction is the element at index round((d + 11.25) / 22.5) mod 16
\* of the list N, NNE, ..., NNW.
C8_RoundBucket ==
    \A p \in Procs : \A d \in 1..360 :
        WindCase(p, d)
        => RendersDirection(p, directions[(RoundOf(4 * d + 45, 90) % 16) + 1])

\* C8, amended: for an integer wind degree d in 1..MaxDeg, the rendered
\* direction is the element at index floor((d + 11.25) / 22.5) mod 16 of the
\* list N, NNE, NE, ENE, E, ESE, SE, SSE, S, SSW, SW, WSW, W, WNW, NW, NNW.
C8_FloorBucket ==
    \A p \in Procs : \A d \in 1..MaxDeg :
        WindCase(p, d)
        => RendersDirection(p,
              <<"N", "NNE", "NE", "ENE", "E", "ESE", "SE", "SSE", "S", "SSW",
                "SW", "WSW", "W", "WNW", "NW", "NNW">>
                  [(((4 * d + 45) \div 90) % 16) + 1])

\* C8's case: 25 degrees, where rounding (NE) and truncation (NNE) differ
C8_Witness ==
    \E p \in Procs : WindCase(p, 25) /\ RendersDirection(p, "NNE")

Labels == {directions[i] : i \in 1..Len(directions)}

\* C9: the rendered wind direction is "N/A" when the period's wind degree is
\* absent or 0, and one of the sixteen compass labels otherwise; 90 renders
\* "E", 11 renders "N" and 349 renders "N".
C9_NotApplicable ==
    \A p \in Procs :
        (/\ Answered(p, "get_forecast")
         /\ Renderable(data[p].body)
         /\ Len(data[p].body.list) = 1)
        => LET period == data[p].body.list[1]
               absent == \/ "wind" \notin period.keys
                         \/ "deg" \notin period.wind.keys
           IN /\ (absent \/ period.wind.deg = 0) => RendersDirection(p, "N/A")
              /\ ~(absent \/ period.wind.deg = 0)
                    => \E label \in Labels : RendersDirection(p, label)
              /\ WindCase(p, 90) => RendersDirection(p, "E")
              /\ WindCase(p, 11) => RendersDirection(p, "N")
              /\ WindCase(p, 349) => RendersDirection(p, "N")

\* C9's case: a wind with a degree of exactly 0
C9_Witness ==
    \E p \in Procs : WindCase(p, 0) /\ RendersDirection(p, "N/A")

\* C10: under any interleaving of invocations, an invocation sends at most one
\* GET, its client is open only between the entry of the async with block and
\* its exit, and once the fetch helper has returned (and so once the tool
\* operation has returned or raised) its client, if it acquired one, is
\* closed, after a failed fetch as after a successful one.
C10_ClientScoped ==
    \A p \in Procs :
        /\ gets[p] <= 1
        /\ client[p] = "open" => pc[p] \in {"get", "await", "exit"}
        /\ pc[p] \in {"render", "done"} => client[p] \in {"none", "closed"}
        /\ (pc[p] \in {"render", "done"} /\ outcome[p] # "none")
              => client[p] = "closed" /\ gets[p] = 1

\* C10's case: one invocation has finished after a failed fetch, its client
\* closed, while the other awaits its answer with its own client open
C10_Witness ==
    \E p, q \in Procs :
        /\ p # q
        /\ pc[p] = "done" /\ outcome[p] \in FailureKinds
        /\ client[p] = "closed"
        /\ pc[q] = "await" /\ client[q] = "open"

====
